---- MODULE Spec2Model ----
(***************************************************************************)
(* Model of package check (github.com/goeezi/check): raise primitives      *)
(* (Must, Must1..Must4, Fail, Failf), the recovery boundary (Handle, Wrap, *)
(* handle), the Catch family and Pass, run on Go call stacks with deferred *)
(* calls, panic and recover.                                               *)
(***************************************************************************)
EXTENDS Integers, Sequences, FiniteSets, TLC

\* ------------------------------------------------------------------------
\* Bounds of the model
\* ------------------------------------------------------------------------
\* Size of the calling code run on one call stack: the number of helper
\* calls, defer statements, Catch_N calls, transform steps handed to a
\* boundary, and raise-primitive / panic calls it makes, all together.
MaxSize == 4

\* math.MinInt, the skip value Handle passes to handle.  It is only ever
\* compared for equality and added to 4; the value used here is the least
\* integer the model checker's arithmetic represents safely.
MinInt == -2147483000

\* ------------------------------------------------------------------------
\* Values: errors, unwind payloads, success values
\* ------------------------------------------------------------------------

\* An error value.  chain is the %w-chain of messages, outermost first;
\* traced/stack is the go-errors decorator attached by errors.Wrap.
Nil == [chain |-> <<>>, traced |-> FALSE, stack |-> <<>>]
NewError(msg) == [chain |-> <<msg>>, traced |-> FALSE, stack |-> <<>>]

Causes == {NewError("oops")}
Formats == {"no result"}

\* fmt.Errorf(format, args...): a freshly constructed error.
Errorf(format) == NewError(format)

\* What recover() returns: nothing, a check.Error, or any other value.
NoPanic == [kind |-> "none", err |-> Nil, val |-> ""]
Error(err) == [kind |-> "Error", err |-> err, val |-> ""]
Value(v) == [kind |-> "value", err |-> Nil, val |-> v]

\* var ErrNilError = errors.New("called Fail(nil)"): an error that is not
\* a check.Error.
ErrNilError == Value("called Fail(nil)")

\* Payloads of panics raised by code outside the package.
ForeignValues == {Value("42")}

\* func (e Error) Unwrap() error
Unwrap(e) == e.err

\* The type assertion taken on the error interface instead: r.(error).
IsError_anyError(r) == r.kind = "Error" \/ r = ErrNilError

\* The type assertion r.(Error).
IsError(r) == r.kind = "Error"

\* Transform steps handed to a boundary.  "suppress" returns nil; every
\* other step is a function of its own, named in order of registration,
\* that wraps its argument: fmt.Errorf("<name>: %w", err).
TransformNames == <<"t1", "t2", "t3", "t4", "t5", "t6", "t7", "t8">>
TransformKinds == {"wrap", "suppress"}
Transform(t, err) ==
    IF t = "suppress" THEN Nil
    ELSE [chain |-> <<t>> \o err.chain, traced |-> FALSE, stack |-> <<>>]

RECURSIVE SeqsUpTo(_, _)
SeqsUpTo(S, n) ==
    IF n = 0 THEN {<<>>}
    ELSE LET shorter == SeqsUpTo(S, n - 1) IN
         shorter \cup {Append(q, x) : q \in shorter, x \in S}

\* Success values handed to Must_N and returned by work functions.
ValueBases == {40}
Zero(n) == [i \in 1..n |-> 0]
Values(n) == {[i \in 1..n |-> b + i] : b \in ValueBases}
Arities == 0..4

\* Names of the user functions on a call stack, by depth.
FnNames == <<"f1", "f2", "f3", "f4", "f5", "f6", "f7", "f8", "f9", "f10",
             "f11", "f12", "f13", "f14">>

\* ------------------------------------------------------------------------
\* Outcome of a call: it returns ret, or it panics with payload; via lists
\* the frames the call leaves on the stack at the panic.
\* ------------------------------------------------------------------------
Returns(v) == [panics |-> FALSE, payload |-> NoPanic, ret |-> v, via |-> <<>>]
Panics(p, via) == [panics |-> TRUE, payload |-> p, ret |-> <<>>, via |-> via]

\* ------------------------------------------------------------------------
\* Raise primitives
\* ------------------------------------------------------------------------
\* Must without the test of err.
Must_alwaysPanics(err) ==
    Panics(Error(err), <<"check.Must", "runtime.gopanic">>)

Must(err) ==
    IF err # Nil THEN Panics(Error(err), <<"check.Must", "runtime.gopanic">>)
    ELSE Returns(<<>>)

Must1(t, err) ==
    IF err # Nil THEN Panics(Error(err), <<"check.Must1", "runtime.gopanic">>)
    ELSE Returns(<<t>>)

\* Must2 without its call of Must.
Must2_skipsCheck(t1, t2, err) == Returns(<<t1, t2>>)

Must2(t1, t2, err) ==
    LET m == Must(err) IN
    IF m.panics THEN [m EXCEPT !.via = <<"check.Must2">> \o @]
    ELSE Returns(<<t1, t2>>)

Must3(t1, t2, t3, err) ==
    LET m == Must(err) IN
    IF m.panics THEN [m EXCEPT !.via = <<"check.Must3">> \o @]
    ELSE Returns(<<t1, t2, t3>>)

Must4(t1, t2, t3, t4, err) ==
    LET m == Must(err) IN
    IF m.panics THEN [m EXCEPT !.via = <<"check.Must4">> \o @]
    ELSE Returns(<<t1, t2, t3, t4>>)

\* Must_N for the arity of the value tuple v.
MustN(v, err) ==
    CASE Len(v) = 0 -> Must(err)
      [] Len(v) = 1 -> Must1(v[1], err)
      [] Len(v) = 2 -> Must2(v[1], v[2], err)
      [] Len(v) = 3 -> Must3(v[1], v[2], v[3], err)
      [] Len(v) = 4 -> Must4(v[1], v[2], v[3], v[4], err)

\* Fail without the nil guard.
Fail_noNilGuard(err) ==
    Panics(Error(err), <<"check.Fail", "runtime.gopanic">>)

Fail(err) ==
    IF err = Nil THEN Panics(ErrNilError, <<"check.Fail", "runtime.gopanic">>)
    ELSE Panics(Error(err), <<"check.Fail", "runtime.gopanic">>)

Failf(format) ==
    Panics(Error(Errorf(format)), <<"check.Failf", "runtime.gopanic">>)

\* Pass without the re-panic.
Pass_neverPanics(r) ==
    [panics |-> FALSE, payload |-> NoPanic, r |-> r, via |-> <<>>]

\* Pass re-panicking every non-nil r.
Pass_repanicsNonNil(r) ==
    IF r # NoPanic
    THEN [panics |-> TRUE, payload |-> r, r |-> NoPanic,
          via |-> <<"check.Pass", "runtime.gopanic">>]
    ELSE [panics |-> FALSE, payload |-> NoPanic, r |-> r, via |-> <<>>]

\* Pass: r is returned in field r unless it is a check.Error.
Pass(r) ==
    IF IsError(r)
    THEN [panics |-> TRUE, payload |-> r, r |-> NoPanic,
          via |-> <<"check.Pass", "runtime.gopanic">>]
    ELSE [panics |-> FALSE, payload |-> NoPanic, r |-> r, via |-> <<>>]

\* ------------------------------------------------------------------------
\* Recovery boundary
\* ------------------------------------------------------------------------

\* A *error argument: NilPtr, or the index of the slot it points to.
NilPtr == 0

RECURSIVE Reverse(_)
Reverse(q) == IF q = <<>> THEN <<>> ELSE Append(Reverse(Tail(q)), Head(q))

Drop(q, n) == IF n >= Len(q) THEN <<>> ELSE SubSeq(q, n + 1, Len(q))

\* runtime.Callers(skip, pc) called by a function whose stack is cs
\* (outermost first): the frames innermost first, less the first skip;
\* frame 0 is runtime.Callers itself.
Callers(skip, cs) == Drop(Reverse(Append(cs, "runtime.Callers")), skip)

\* errors.Wrap(e, skip) of github.com/go-errors/errors, called with stack
\* cs: an error that already carries a stack is returned as it is,
\* otherwise the error is decorated with Callers(2+skip).
errorsWrap(err, skip, cs) ==
    IF err.traced THEN err
    ELSE [chain |-> err.chain, traced |-> TRUE,
          stack |-> Callers(2 + skip, Append(cs, "errors.Wrap"))]

\* The loop run over transforms from the last to the first.
RECURSIVE applyTransforms_lastFirst(_, _, _)
applyTransforms_lastFirst(err, transforms, calls) ==
    IF transforms = <<>> THEN [err |-> err, stopped |-> FALSE, calls |-> calls]
    ELSE LET t == transforms[Len(transforms)]
             next == Transform(t, err)
             made == Append(calls, [t |-> t, arg |-> err])
         IN  IF next = Nil
             THEN [err |-> Nil, stopped |-> TRUE, calls |-> made]
             ELSE applyTransforms_lastFirst(
                      next, SubSeq(transforms, 1, Len(transforms) - 1), made)

\* The loop without the early return on nil.
RECURSIVE applyTransforms_noStop(_, _, _)
applyTransforms_noStop(err, transforms, calls) ==
    IF transforms = <<>> THEN [err |-> err, stopped |-> FALSE, calls |-> calls]
    ELSE applyTransforms_noStop(
             Transform(Head(transforms), err), Tail(transforms),
             Append(calls, [t |-> Head(transforms), arg |-> err]))

\* The loop started at the second transform.
RECURSIVE applyTransforms_rest(_, _, _)
applyTransforms_rest(err, transforms, calls) ==
    IF transforms = <<>> THEN [err |-> err, stopped |-> FALSE, calls |-> calls]
    ELSE LET next == Transform(Head(transforms), err)
             made == Append(calls, [t |-> Head(transforms), arg |-> err])
         IN  IF next = Nil
             THEN [err |-> Nil, stopped |-> TRUE, calls |-> made]
             ELSE applyTransforms_rest(next, Tail(transforms), made)

applyTransforms_skipsFirst(err, transforms, calls) ==
    applyTransforms_rest(err,
                         IF transforms = <<>> THEN <<>> ELSE Tail(transforms),
                         calls)

\* The loop of handle over transforms: err = transform(err), stopping at
\* the first nil.  calls lists the invocations made, in order.
RECURSIVE applyTransforms(_, _, _)
applyTransforms(err, transforms, calls) ==
    IF transforms = <<>> THEN [err |-> err, stopped |-> FALSE, calls |-> calls]
    ELSE LET next == Transform(Head(transforms), err)
             made == Append(calls, [t |-> Head(transforms), arg |-> err])
         IN  IF next = Nil
             THEN [err |-> Nil, stopped |-> TRUE, calls |-> made]
             ELSE applyTransforms(next, Tail(transforms), made)

\* Result of a boundary: the branch taken, the panic it leaves in flight
\* (NoPanic when it returns normally), whether *e was assigned and with
\* what, and the transform invocations made.
BoundaryResult(branch, panic, via, write, val, calls) ==
    [branch |-> branch, panic |-> panic, via |-> via,
     write |-> write, val |-> val, calls |-> calls]

\* handle without the final panic(r).
handle_swallowsForeign(r, skip, e, transforms, cs) ==
    IF r # NoPanic THEN
        IF IsError(r) THEN
            LET res == applyTransforms(Unwrap(r), transforms, <<>>) IN
            IF res.stopped THEN
                BoundaryResult("suppress", NoPanic, <<>>, FALSE, Nil, res.calls)
            ELSE IF e = NilPtr THEN
                BoundaryResult("reraise", Error(res.err), <<"runtime.gopanic">>,
                               FALSE, Nil, res.calls)
            ELSE
                BoundaryResult("deposit", NoPanic, <<>>, TRUE,
                               IF skip # MinInt
                               THEN errorsWrap(res.err, 4 + skip, cs)
                               ELSE res.err,
                               res.calls)
        ELSE BoundaryResult("pass", NoPanic, <<>>, FALSE, Nil, <<>>)
    ELSE BoundaryResult("noop", NoPanic, <<>>, FALSE, Nil, <<>>)

\* handle with panic(r) in place of panic(Error{err}) when e is nil.
handle_repanicsOriginal(r, skip, e, transforms, cs) ==
    IF r # NoPanic THEN
        IF IsError(r) THEN
            LET res == applyTransforms(Unwrap(r), transforms, <<>>) IN
            IF res.stopped THEN
                BoundaryResult("suppress", NoPanic, <<>>, FALSE, Nil, res.calls)
            ELSE IF e = NilPtr THEN
                BoundaryResult("reraise", r, <<"runtime.gopanic">>,
                               FALSE, Nil, res.calls)
            ELSE
                BoundaryResult("deposit", NoPanic, <<>>, TRUE,
                               IF skip # MinInt
                               THEN errorsWrap(res.err, 4 + skip, cs)
                               ELSE res.err,
                               res.calls)
        ELSE BoundaryResult("pass", r, <<"runtime.gopanic">>, FALSE, Nil, <<>>)
    ELSE BoundaryResult("noop", NoPanic, <<>>, FALSE, Nil, <<>>)

\* handle assigning the recovered cause to *e before it returns on a nil
\* transform result.
handle_recordsOnSuppress(r, skip, e, transforms, cs) ==
    IF r # NoPanic THEN
        IF IsError(r) THEN
            LET res == applyTransforms(Unwrap(r), transforms, <<>>) IN
            IF res.stopped THEN
                BoundaryResult("suppress", NoPanic, <<>>, e # NilPtr,
                               Unwrap(r), res.calls)
            ELSE IF e = NilPtr THEN
                BoundaryResult("reraise", Error(res.err), <<"runtime.gopanic">>,
                               FALSE, Nil, res.calls)
            ELSE
                BoundaryResult("deposit", NoPanic, <<>>, TRUE,
                               IF skip # MinInt
                               THEN errorsWrap(res.err, 4 + skip, cs)
                               ELSE res.err,
                               res.calls)
        ELSE BoundaryResult("pass", r, <<"runtime.gopanic">>, FALSE, Nil, <<>>)
    ELSE BoundaryResult("noop", NoPanic, <<>>, FALSE, Nil, <<>>)

\* handle assigning nil to *e when there is nothing to recover.
handle_assignsOnNoPanic(r, skip, e, transforms, cs) ==
    IF r # NoPanic THEN
        IF IsError(r) THEN
            LET res == applyTransforms(Unwrap(r), transforms, <<>>) IN
            IF res.stopped THEN
                BoundaryResult("suppress", NoPanic, <<>>, FALSE, Nil, res.calls)
            ELSE IF e = NilPtr THEN
                BoundaryResult("reraise", Error(res.err), <<"runtime.gopanic">>,
                               FALSE, Nil, res.calls)
            ELSE
                BoundaryResult("deposit", NoPanic, <<>>, TRUE,
                               IF skip # MinInt
                               THEN errorsWrap(res.err, 4 + skip, cs)
                               ELSE res.err,
                               res.calls)
        ELSE BoundaryResult("pass", r, <<"runtime.gopanic">>, FALSE, Nil, <<>>)
    ELSE BoundaryResult("noop", NoPanic, <<>>, e # NilPtr, Nil, <<>>)

\* handle without the return that follows *e = err: it falls through to
\* panic(r).
handle_depositsAndRepanics(r, skip, e, transforms, cs) ==
    IF r # NoPanic THEN
        IF IsError(r) THEN
            LET res == applyTransforms(Unwrap(r), transforms, <<>>) IN
            IF res.stopped THEN
                BoundaryResult("suppress", NoPanic, <<>>, FALSE, Nil, res.calls)
            ELSE IF e = NilPtr THEN
                BoundaryResult("reraise", Error(res.err), <<"runtime.gopanic">>,
                               FALSE, Nil, res.calls)
            ELSE
                BoundaryResult("deposit", r, <<"runtime.gopanic">>, TRUE,
                               IF skip # MinInt
                               THEN errorsWrap(res.err, 4 + skip, cs)
                               ELSE res.err,
                               res.calls)
        ELSE BoundaryResult("pass", r, <<"runtime.gopanic">>, FALSE, Nil, <<>>)
    ELSE BoundaryResult("noop", NoPanic, <<>>, FALSE, Nil, <<>>)

\* handle going on to panic(Error{err}) after it has assigned *e.
handle_depositsAndReraises(r, skip, e, transforms, cs) ==
    IF r # NoPanic THEN
        IF IsError(r) THEN
            LET res == applyTransforms(Unwrap(r), transforms, <<>>) IN
            IF res.stopped THEN
                BoundaryResult("suppress", NoPanic, <<>>, FALSE, Nil, res.calls)
            ELSE IF e = NilPtr THEN
                BoundaryResult("reraise", Error(res.err), <<"runtime.gopanic">>,
                               FALSE, Nil, res.calls)
            ELSE
                BoundaryResult("reraise", Error(res.err), <<"runtime.gopanic">>,
                               TRUE,
                               IF skip # MinInt
                               THEN errorsWrap(res.err, 4 + skip, cs)
                               ELSE res.err,
                               res.calls)
        ELSE BoundaryResult("pass", r, <<"runtime.gopanic">>, FALSE, Nil, <<>>)
    ELSE BoundaryResult("noop", NoPanic, <<>>, FALSE, Nil, <<>>)

\* handle(r, skip, e, transforms...), running with call stack cs.
handle(r, skip, e, transforms, cs) ==
    IF r # NoPanic THEN
        IF IsError(r) THEN
            LET res == applyTransforms(Unwrap(r), transforms, <<>>) IN
            IF res.stopped THEN
                BoundaryResult("suppress", NoPanic, <<>>, FALSE, Nil, res.calls)
            ELSE IF e = NilPtr THEN
                BoundaryResult("reraise", Error(res.err), <<"runtime.gopanic">>,
                               FALSE, Nil, res.calls)
            ELSE
                BoundaryResult("deposit", NoPanic, <<>>, TRUE,
                               IF skip # MinInt
                               THEN errorsWrap(res.err, 4 + skip, cs)
                               ELSE res.err,
                               res.calls)
        ELSE BoundaryResult("pass", r, <<"runtime.gopanic">>, FALSE, Nil, <<>>)
    ELSE BoundaryResult("noop", NoPanic, <<>>, FALSE, Nil, <<>>)

\* Handle(e, transforms...) run as a deferred call: r is what its
\* recover() returns, cs the call stack it runs on.
Handle(e, transforms, r, cs) ==
    LET h == handle(r, MinInt, e, transforms,
                    cs \o <<"check.Handle", "check.handle">>)
    IN  [h EXCEPT !.via = IF h.panic = NoPanic THEN <<>>
                          ELSE <<"check.Handle", "check.handle">> \o @]

\* Wrap(e, skip, transforms...) run as a deferred call.
Wrap(e, skip, transforms, r, cs) ==
    LET h == handle(r, skip, e, transforms,
                    cs \o <<"check.Wrap", "check.handle">>)
    IN  [h EXCEPT !.via = IF h.panic = NoPanic THEN <<>>
                          ELSE <<"check.Wrap", "check.handle">> \o @]

\* Catch_N returning whatever work had computed when it panicked.
Catch_keepsComputed(n, w, transforms, cs) ==
    LET h == Handle(1, transforms, w.payload, Append(cs, "check.Catch")) IN
    [panic |-> h.panic, via |-> h.via, branch |-> h.branch, calls |-> h.calls,
     t |-> w.ret,
     write |-> h.write,
     e |-> IF h.write THEN h.val ELSE Nil]

\* Catch_N(work, transforms...): w is the outcome of work().  The named
\* results t and e start at their zero values; t is assigned only when
\* work returns; the deferred Handle(&e, transforms...) then runs.
Catch(n, w, transforms, cs) ==
    LET h == Handle(1, transforms, w.payload, Append(cs, "check.Catch")) IN
    [panic |-> h.panic, via |-> h.via, branch |-> h.branch, calls |-> h.calls,
     t |-> IF w.panics THEN Zero(n) ELSE w.ret,
     write |-> h.write,
     e |-> IF h.write THEN h.val ELSE Nil]

\* The generic recovery hook of TestPass:
\*   if r := check.Pass(recover()); r != nil { report(r); panic(r) }
logPanic(r, log) ==
    LET p == Pass(r) IN
    IF p.panics THEN [panic |-> p.payload, via |-> <<"logPanic">> \o p.via,
                      log |-> log]
    ELSE IF p.r # NoPanic
         THEN [panic |-> p.r, via |-> <<"logPanic", "runtime.gopanic">>,
               log |-> Append(log, p.r.val)]
         ELSE [panic |-> NoPanic, via |-> <<>>, log |-> log]

\* ------------------------------------------------------------------------
\* State: one record per goroutine (call stack)
\* ------------------------------------------------------------------------
VARIABLE goroutines
vars == <<goroutines>>

\* The fields of goroutines[s]:
\*   pc      "run": the top function is executing its body; "exit": it is
\*           leaving (returning or panicking) and its deferred calls run;
\*           "done": the bottom function returned; "crashed": a panic left it
\*   cstack  frames of the functions being executed, outermost first
\*   defers  pending deferred calls, innermost last
\*   slot    the error variables the *error arguments point to
\*   panic   the payload recover() would return (NoPanic: not panicking)
\*   pstack  the call stack at the point of the panic in flight
\*   maker   the function whose Error{...} literal built the payload in
\*           flight ("" when no check.Error is in flight)
\*   calls   transform invocations made so far, in order
\*   writes  assignments made through *e so far, in order
\*   log     what the logPanic hook reported
\*   ret     values returned by the last call that returned
\*   rerr    error returned by the last Catch_N
\*   ops     raise-primitive and panic calls made
\*   used    size of the calling code run so far
\*   last    the step taken last

Frame(fn, kind, arity) == [fn |-> fn, kind |-> kind, arity |-> arity]
Deferred(fn, e, skip, transforms, owner) ==
    [fn |-> fn, e |-> e, skip |-> skip, transforms |-> transforms,
     owner |-> owner]
NoDeferred == Deferred("", NilPtr, MinInt, <<>>, 0)

\* A step: the operation, its arity n and its inputs (success values v,
\* cause c, recovered payload r, deferred call d) and the branch taken.
Step(op, n, v, c, r, d, branch) ==
    [op |-> op, n |-> n, v |-> v, c |-> c, r |-> r, d |-> d,
     branch |-> branch]
EnvStep(op) == Step(op, 0, <<>>, Nil, NoPanic, NoDeferred, "")

NewGoroutine ==
    [pc |-> "run",
     cstack |-> <<Frame(FnNames[1], "user", 0)>>,
     defers |-> <<>>,
     slot |-> [i \in 1..MaxSize |-> Nil],
     panic |-> NoPanic,
     pstack |-> <<>>,
     maker |-> "",
     calls |-> <<>>,
     writes |-> <<>>,
     log |-> <<>>,
     ret |-> <<>>,
     rerr |-> Nil,
     ops |-> 0,
     used |-> 0,
     last |-> EnvStep("go")]

Init == goroutines = [s \in {1} |-> NewGoroutine]

Top(q) == q[Len(q)]
Front(q) == SubSeq(q, 1, Len(q) - 1)

RECURSIVE FrameNames(_)
FrameNames(cs) ==
    IF cs = <<>> THEN <<>> ELSE <<Head(cs).fn>> \o FrameNames(Tail(cs))

RECURSIVE Registered(_)
Registered(ds) ==
    IF ds = <<>> THEN 0 ELSE Len(Head(ds).transforms) + Registered(Tail(ds))

\* The calling code of g has room for n more calls.
Room(g, n) == g.used + n <= MaxSize

\* Transform chains a new boundary of g may register.
Chains(g) ==
    LET have == Registered(g.defers) IN
    {[i \in 1..Len(ks) |-> IF ks[i] = "suppress" THEN "suppress"
                           ELSE TransformNames[have + i]] :
        ks \in SeqsUpTo(TransformKinds, MaxSize - g.used - 2)}

\* Skip counts passed to Wrap; math.MinInt is what Handle passes.
SkipValues == {MinInt, 0, 1}

\* The call stack a deferred call of g runs on.
StackNow(g) == IF g.panic # NoPanic THEN g.pstack ELSE FrameNames(g.cstack)

\* g after a raise primitive or panic with outcome o.
Raised(g, o, step) ==
    IF o.panics
    THEN [g EXCEPT !.pc = "exit", !.panic = o.payload,
                   !.pstack = FrameNames(g.cstack) \o o.via,
                   !.maker = IF IsError(o.payload) THEN o.via[Len(o.via) - 1]
                             ELSE "",
                   !.ops = @ + 1, !.used = @ + 1, !.last = step]
    ELSE [g EXCEPT !.ret = o.ret, !.ops = @ + 1, !.used = @ + 1,
                   !.last = step]

\* The maker of the payload in flight after a boundary with result res ran:
\* handle builds a new Error{err} when it re-raises for want of a slot, and
\* panics with the recovered value itself otherwise.
MakerAfter(maker, res) ==
    IF res.panic = NoPanic THEN ""
    ELSE IF res.branch = "reraise" THEN "check.handle"
    ELSE maker

\* g after its innermost deferred call d ran as a boundary with result res.
\* A function whose deferred call ended a panic returns the zero values of
\* its results.
Recovered(g, d, res, step) ==
    [g EXCEPT !.defers = Front(@),
              !.panic = res.panic,
              !.ret = IF g.panic # NoPanic /\ res.panic = NoPanic
                      THEN Zero(g.cstack[d.owner].arity) ELSE @,
              !.pstack = IF res.panic # NoPanic THEN StackNow(g) \o res.via
                         ELSE <<>>,
              !.maker = MakerAfter(@, res),
              !.slot = IF res.write THEN [@ EXCEPT ![d.e] = res.val] ELSE @,
              !.writes = IF res.write
                         THEN Append(@, [slot |-> d.e, val |-> res.val])
                         ELSE @,
              !.calls = @ \o [i \in 1..Len(res.calls) |->
                                [at |-> Len(g.defers), t |-> res.calls[i].t,
                                 arg |-> res.calls[i].arg]],
              !.last = step]

\* ------------------------------------------------------------------------
\* Steps of the calling code
\* ------------------------------------------------------------------------
Running(g) == g.pc = "run"

\* The calling code has the shape: nested calls that install their
\* boundaries, then calls of raise primitives, then returns; it leaves
\* itself room for a raise call.
SetupSteps == {"go", "call", "defer", "catch"}
CanCall(g) == Running(g) /\ g.last.op \in SetupSteps /\ Room(g, 2)

\* Number of success values of the work function that g is running (0 when
\* it runs none).
Results(g) ==
    LET works == {i \in 1..Len(g.cstack) : g.cstack[i].kind = "work"} IN
    IF works = {} THEN 0
    ELSE g.cstack[CHOOSE i \in works : \A j \in works : j <= i].arity

\* Helper functions and work functions that compute success values install
\* no boundary of their own.
CanDefer(g) ==
    /\ CanCall(g)
    /\ Top(g.cstack).kind # "helper"
    /\ Results(g) = 0

\* A work function calls Must and the Must_N of the values it computes;
\* other functions call any.
MustArities(g) == IF Results(g) = 0 THEN Arities ELSE {0, Results(g)}

\* The top function calls a function that installs no boundary of its own
\* and goes on to call raise primitives (crash() in TestWrap).
CallFn(s) ==
    LET g == goroutines[s] IN
    /\ CanCall(g)
    /\ goroutines' = [goroutines EXCEPT ![s] =
         [g EXCEPT !.cstack = Append(@, Frame(FnNames[Len(@) + 1], "helper", 0)),
                   !.used = @ + 1,
                   !.last = EnvStep("call")]]

\* defer check.Handle(e, transforms...)
DeferHandle(s) ==
    LET g == goroutines[s] IN
    /\ CanDefer(g)
    /\ \E e \in {NilPtr, Len(g.defers) + 1}, ts \in Chains(g) :
         goroutines' = [goroutines EXCEPT ![s] =
           [g EXCEPT !.defers = Append(@, Deferred("Handle", e, MinInt, ts,
                                                   Len(g.cstack))),
                     !.slot = [@ EXCEPT ![Len(g.defers) + 1] = Nil],
                     !.used = @ + 1 + Len(ts),
                     !.last = EnvStep("defer")]]

\* defer check.Wrap(e, skip, transforms...)
DeferWrap(s) ==
    LET g == goroutines[s] IN
    /\ CanDefer(g)
    /\ \E e \in {NilPtr, Len(g.defers) + 1}, skip \in SkipValues,
          ts \in Chains(g) :
         goroutines' = [goroutines EXCEPT ![s] =
           [g EXCEPT !.defers = Append(@, Deferred("Wrap", e, skip, ts,
                                                   Len(g.cstack))),
                     !.slot = [@ EXCEPT ![Len(g.defers) + 1] = Nil],
                     !.used = @ + 1 + Len(ts),
                     !.last = EnvStep("defer")]]

\* defer logPanic()
DeferLogPanic(s) ==
    LET g == goroutines[s] IN
    /\ CanDefer(g)
    /\ goroutines' = [goroutines EXCEPT ![s] =
         [g EXCEPT !.defers = Append(@, Deferred("logPanic", NilPtr, MinInt,
                                                 <<>>, Len(g.cstack))),
                   !.used = @ + 1,
                   !.last = EnvStep("defer")]]

\* check.Must_N(v..., c)
CallMust(s) ==
    LET g == goroutines[s] IN
    /\ Running(g)
    /\ Room(g, 1)
    /\ \E n \in MustArities(g) : \E v \in Values(n), c \in Causes \cup {Nil} :
         goroutines' = [goroutines EXCEPT ![s] =
           Raised(g, MustN(v, c), Step("Must", n, v, c, NoPanic, NoDeferred, ""))]

\* check.Fail(c)
CallFail(s) ==
    LET g == goroutines[s] IN
    /\ Running(g)
    /\ Room(g, 1)
    /\ \E c \in Causes \cup {Nil} :
         goroutines' = [goroutines EXCEPT ![s] =
           Raised(g, Fail(c), Step("Fail", 0, <<>>, c, NoPanic, NoDeferred, ""))]

\* check.Failf(format, args...)
CallFailf(s) ==
    LET g == goroutines[s] IN
    /\ Running(g)
    /\ Room(g, 1)
    /\ \E f \in Formats :
         goroutines' = [goroutines EXCEPT ![s] =
           Raised(g, Failf(f),
                  Step("Failf", 0, <<>>, Errorf(f), NoPanic, NoDeferred, ""))]

\* panic(p) of a value that is not a check.Error, by code outside the package
ForeignPanic(s) ==
    LET g == goroutines[s] IN
    /\ Running(g)
    /\ Room(g, 1)
    /\ \E p \in ForeignValues :
         goroutines' = [goroutines EXCEPT ![s] =
           Raised(g, Panics(p, <<"runtime.gopanic">>),
                  Step("panic", 0, <<>>, Nil, p, NoDeferred, ""))]

\* The top function returns; a work function returns its values.
Return(s) ==
    LET g == goroutines[s]
        f == Top(g.cstack)
    IN
    /\ Running(g)
    /\ \E v \in (IF f.kind = "work" THEN Values(f.arity) ELSE {<<>>}) :
         goroutines' = [goroutines EXCEPT ![s] =
           [g EXCEPT !.pc = "exit", !.ret = v, !.last = EnvStep("return")]]

\* ------------------------------------------------------------------------
\* Steps of a function that is leaving: its deferred calls, innermost
\* first, then its frame
\* ------------------------------------------------------------------------
Exiting(g) == g.pc = "exit"

\* The innermost deferred call belongs to the top function, which is fn's
\* caller-written code (not Catch_N).
DeferredNext(g, fn) ==
    /\ Exiting(g)
    /\ g.defers # <<>>
    /\ Top(g.defers).owner = Len(g.cstack)
    /\ Top(g.defers).fn = fn
    /\ Top(g.cstack).kind # "catch"

\* The deferred Handle assigning to one process-wide error variable in place
\* of *e: the value lands in the slot of the first goroutine.
RunHandle_sharedSlot(s) ==
    LET g == goroutines[s]
        d == Top(g.defers)
        res == Handle(d.e, d.transforms, g.panic, StackNow(g))
        first == CHOOSE t \in DOMAIN goroutines :
                    \A u \in DOMAIN goroutines : t <= u
        after == [goroutines EXCEPT ![s] =
                    Recovered(g, d, [res EXCEPT !.write = FALSE],
                              Step("Handle", 0, <<>>, Nil, g.panic, d,
                                   res.branch))]
    IN
    /\ DeferredNext(g, "Handle")
    /\ goroutines' = IF res.write
                     THEN [after EXCEPT ![first].slot[1] = res.val]
                     ELSE after

\* The deferred check.Handle(e, transforms...) runs.
RunHandle(s) ==
    LET g == goroutines[s]
        d == Top(g.defers)
        res == Handle(d.e, d.transforms, g.panic, StackNow(g))
    IN
    /\ DeferredNext(g, "Handle")
    /\ goroutines' = [goroutines EXCEPT ![s] =
         Recovered(g, d, res,
                   Step("Handle", 0, <<>>, Nil, g.panic, d, res.branch))]

\* The deferred check.Wrap(e, skip, transforms...) runs.
RunWrap(s) ==
    LET g == goroutines[s]
        d == Top(g.defers)
        res == Wrap(d.e, d.skip, d.transforms, g.panic, StackNow(g))
    IN
    /\ DeferredNext(g, "Wrap")
    /\ goroutines' = [goroutines EXCEPT ![s] =
         Recovered(g, d, res,
                   Step("Wrap", 0, <<>>, Nil, g.panic, d, res.branch))]

\* The deferred logPanic() runs.
RunLogPanic(s) ==
    LET g == goroutines[s]
        d == Top(g.defers)
        res == logPanic(g.panic, g.log)
    IN
    /\ DeferredNext(g, "logPanic")
    /\ goroutines' = [goroutines EXCEPT ![s] =
         [g EXCEPT !.defers = Front(@),
                   !.panic = res.panic,
                   !.pstack = IF res.panic # NoPanic
                              THEN StackNow(g) \o res.via ELSE <<>>,
                   !.log = res.log,
                   !.last = Step("Pass", 0, <<>>, Nil, g.panic, d,
                                 IF Pass(g.panic).panics THEN "reraise"
                                 ELSE "return")]]

\* Catch_N leaves: work() has returned or panicked, t is assigned if it
\* returned, the deferred Handle(&e, transforms...) runs and, unless a panic
\* goes on, Catch_N returns (t..., e) to its caller.
CatchExit(s) ==
    LET g == goroutines[s]
        f == Top(g.cstack)
        d == Top(g.defers)
        w == [panics |-> g.panic # NoPanic, payload |-> g.panic, ret |-> g.ret]
        res == Catch(f.arity, w, d.transforms,
                     IF g.panic # NoPanic THEN g.pstack
                     ELSE FrameNames(Front(g.cstack)))
    IN
    /\ Exiting(g)
    /\ f.kind = "catch"
    /\ goroutines' = [goroutines EXCEPT ![s] =
         [g EXCEPT !.pc = IF res.panic # NoPanic THEN "exit" ELSE "run",
                   !.cstack = Front(@),
                   !.defers = Front(@),
                   !.panic = res.panic,
                   !.pstack = IF res.panic # NoPanic
                              THEN g.pstack \o res.via ELSE <<>>,
                   !.maker = MakerAfter(@, res),
                   !.slot = [@ EXCEPT ![d.e] = res.e],
                   !.writes = IF res.write
                              THEN Append(@, [slot |-> d.e, val |-> res.e])
                              ELSE @,
                   !.calls = @ \o [i \in 1..Len(res.calls) |->
                                     [at |-> Len(g.defers),
                                      t |-> res.calls[i].t,
                                      arg |-> res.calls[i].arg]],
                   !.ret = IF res.panic # NoPanic THEN @ ELSE res.t,
                   !.rerr = IF res.panic # NoPanic THEN @ ELSE res.e,
                   !.last = Step("Catch", f.arity, w.ret, Nil, g.panic, d,
                                 res.branch)]]

\* check.Catch_N(work, transforms...) is called: it defers
\* Handle(&e, transforms...) and calls work().
CallCatch(s) ==
    LET g == goroutines[s] IN
    /\ CanDefer(g)
    /\ \E n \in Arities, ts \in Chains(g) :
         goroutines' = [goroutines EXCEPT ![s] =
           [g EXCEPT !.cstack = @ \o <<Frame("check.Catch", "catch", n),
                                       Frame(FnNames[Len(@) + 2], "work", n)>>,
                     !.defers = Append(@, Deferred("Handle", Len(@) + 1,
                                                   MinInt, ts,
                                                   Len(g.cstack) + 1)),
                     !.slot = [@ EXCEPT ![Len(g.defers) + 1] = Nil],
                     !.used = @ + 1 + Len(ts),
                     !.last = EnvStep("catch")]]

\* The top function has no deferred call left and its frame is popped: a
\* panic in flight goes on in its caller, otherwise the caller resumes.
PopFrame(s) ==
    LET g == goroutines[s]
        rest == Front(g.cstack)
    IN
    /\ Exiting(g)
    /\ Top(g.cstack).kind # "catch"
    /\ IF g.defers = <<>> THEN TRUE ELSE Top(g.defers).owner < Len(g.cstack)
    /\ goroutines' = [goroutines EXCEPT ![s] =
         [g EXCEPT !.cstack = rest,
                   !.pc = IF g.panic # NoPanic
                          THEN (IF rest = <<>> THEN "crashed" ELSE "exit")
                          ELSE IF rest = <<>> THEN "done"
                          ELSE IF Top(rest).kind = "catch" THEN "exit"
                          ELSE "run",
                   !.last = EnvStep("pop")]]

Next ==
    \E s \in DOMAIN goroutines :
        \/ CallFn(s)
        \/ DeferHandle(s)
        \/ DeferWrap(s)
        \/ DeferLogPanic(s)
        \/ CallCatch(s)
        \/ CallMust(s)
        \/ CallFail(s)
        \/ CallFailf(s)
        \/ ForeignPanic(s)
        \/ Return(s)
        \/ RunHandle(s)
        \/ RunWrap(s)
        \/ RunLogPanic(s)
        \/ CatchExit(s)
        \/ PopFrame(s)

Spec == Init /\ [][Next]_vars

\* ------------------------------------------------------------------------
\* Nested boundaries: a function that defers an outer boundary with a slot
\* and then an inner boundary without one, and goes on to make one call
\*   func() (e error) { defer Handle(&e, tout...); defer Handle(nil, tin...);
\*                      <raise call>; return }
\* ------------------------------------------------------------------------

\* The boundaries a function may defer: Handle, or Wrap with a skip count.
BoundaryKinds ==
    {[fn |-> "Handle", skip |-> MinInt]} \cup
    {[fn |-> "Wrap", skip |-> k] : k \in SkipValues}

\* The chain of the kinds ks, registered after have other transforms.
NamedChain(ks, have) ==
    [i \in 1..Len(ks) |-> IF ks[i] = "suppress" THEN "suppress"
                          ELSE TransformNames[have + i]]

\* The state of a goroutine that has deferred the two boundaries; the size
\* left to its calling code is that of one call.
Nested(outer, inner, kout, kin) ==
    [NewGoroutine EXCEPT
       !.defers = <<Deferred(outer.fn, 1, outer.skip, NamedChain(kout, 0), 1),
                    Deferred(inner.fn, NilPtr, inner.skip,
                             NamedChain(kin, Len(kout)), 1)>>,
       !.used = MaxSize - 1,
       !.last = EnvStep("defer")]

InitNested ==
    \E outer \in BoundaryKinds, inner \in BoundaryKinds :
    \E kout \in SeqsUpTo(TransformKinds, MaxSize - 1) :
    \E kin \in SeqsUpTo(TransformKinds, MaxSize - 1 - Len(kout)) :
        goroutines = [s \in {1} |-> Nested(outer, inner, kout, kin)]

NextNested ==
    \E s \in DOMAIN goroutines :
        \/ CallMust(s)
        \/ CallFail(s)
        \/ CallFailf(s)
        \/ ForeignPanic(s)
        \/ Return(s)
        \/ RunHandle(s)
        \/ RunWrap(s)
        \/ PopFrame(s)

SpecNested == InitNested /\ [][NextNested]_vars

\* ------------------------------------------------------------------------
\* Concurrent call stacks: goroutines that each defer one boundary of their
\* own, make one call and return (the parallel tests of the package)
\* ------------------------------------------------------------------------
Stacks == {1, 2}

\* The state of a goroutine that has deferred one boundary on its own slot;
\* the size left to its calling code is that of one call.
Single(b, ks) ==
    [NewGoroutine EXCEPT
       !.defers = <<Deferred(b.fn, 1, b.skip, NamedChain(ks, 0), 1)>>,
       !.used = MaxSize - 1,
       !.last = EnvStep("defer")]

Singles ==
    {Single(b, ks) : b \in BoundaryKinds,
                     ks \in SeqsUpTo(TransformKinds, MaxSize - 3)}

InitPar == goroutines \in [Stacks -> Singles]

\* A step of goroutine s.
StepPar(s) ==
    \/ CallFail(s)
    \/ ForeignPanic(s)
    \/ Return(s)
    \/ RunHandle(s)
    \/ RunWrap(s)
    \/ PopFrame(s)

NextPar == \E s \in DOMAIN goroutines : StepPar(s)

SpecPar == InitPar /\ [][NextPar]_vars

\* ------------------------------------------------------------------------
\* Properties
\* ------------------------------------------------------------------------
Ids == DOMAIN goroutines

BoundaryOps == {"Handle", "Wrap", "Catch"}

\* The step from g to h ran a boundary: Handle, Wrap or the Handle of a
\* Catch_N.
BoundaryStep(g, h) ==
    /\ h.last.op \in BoundaryOps
    /\ Len(h.defers) = Len(g.defers) - 1

\* The step from g to h called a raise primitive or panicked.
RaiseStep(g, h, op) == h.last.op = op /\ h.ops = g.ops + 1

\* The step from g to h ran the logPanic hook, which calls Pass(recover()).
PassStep(g, h) == h.last.op = "Pass" /\ Len(h.defers) = Len(g.defers) - 1

Range(q) == {q[i] : i \in 1..Len(q)}
Suppressing(ts) == "suppress" \in Range(ts)
FirstSuppress(ts) ==
    CHOOSE k \in 1..Len(ts) : ts[k] = "suppress" /\ \A j \in 1..(k - 1) : ts[j] # "suppress"

\* tn(...t1(c)...) for a chain ts without a suppressing step: each step
\* wraps what the steps before it produced.
Composed(ts, c) ==
    [chain |-> Reverse(ts) \o c.chain, traced |-> FALSE, stack |-> <<>>]

\* The entries of calls added by the step from g to h.
NewCalls(g, h) == SubSeq(h.calls, Len(g.calls) + 1, Len(h.calls))

\* C1: Must_N(v, c), for every arity N in 0..4, unwinds iff c is non-nil;
\* the payload is then a check.Error wrapping exactly c and no success
\* value is returned; when c is nil it returns v unchanged, starts no unwind
\* and changes nothing else.
C1_MustContract ==
    [][\A s \in Ids :
        LET g == goroutines[s]
            h == goroutines'[s]
            v == h.last.v
            c == h.last.c
        IN  RaiseStep(g, h, "Must") =>
              /\ Len(v) = h.last.n
              /\ (h.panic # NoPanic) <=> (c # Nil)
              /\ c # Nil =>
                   /\ h.pc = "exit"
                   /\ IsError(h.panic) /\ Unwrap(h.panic) = c
                   /\ h.ret = g.ret
              /\ c = Nil =>
                   h = [g EXCEPT !.ret = v, !.ops = @ + 1, !.used = @ + 1,
                                 !.last = h.last]
              /\ h.defers = g.defers /\ h.slot = g.slot /\ h.calls = g.calls
              /\ h.writes = g.writes /\ h.log = g.log /\ h.cstack = g.cstack
      ]_vars

C1_Witness ==
    \E s \in Ids :
        LET g == goroutines[s] IN
        /\ g.last.op = "Must" /\ g.last.n = 4 /\ g.last.c \in Causes
        /\ g.panic = Error(g.last.c)
        /\ g.ret # <<>>

\* C2: a foreign unwind (a non-nil payload that is not a check.Error)
\* reaching Handle, Wrap or Catch_N, with or without a slot and with any
\* transform chain, is re-raised with the identical payload; no slot is
\* written and no transform is invoked.
C2_ForeignReraised ==
    [][\A s \in Ids :
        LET g == goroutines[s]
            h == goroutines'[s]
        IN  (BoundaryStep(g, h) /\ g.panic # NoPanic /\ ~IsError(g.panic)) =>
              /\ h.panic = g.panic
              /\ h.pc = "exit"
              /\ h.slot = g.slot
              /\ h.writes = g.writes
              /\ h.calls = g.calls
      ]_vars

C2_Witness ==
    \E s \in Ids :
        LET g == goroutines[s] IN
        /\ g.last.op \in BoundaryOps
        /\ g.last.r \in ForeignValues
        /\ g.last.d.e # NilPtr
        /\ Suppressing(g.last.d.transforms)
        /\ g.panic = g.last.r
        /\ g.writes = <<>> /\ g.calls = <<>>

\* C3: Handle with a slot and a chain t1..tn (n >= 0) without a suppressing
\* step, intercepting a check.Error wrapping c, leaves tn(...t1(c)...) in
\* the slot (c itself when n = 0), having applied the steps in declaration
\* order, and ends the unwind: the function returns normally.
C3_HandleDeposits ==
    [][\A s \in Ids :
        LET g == goroutines[s]
            h == goroutines'[s]
            d == h.last.d
            c == Unwrap(g.panic)
            new == NewCalls(g, h)
        IN  (BoundaryStep(g, h) /\ h.last.op = "Handle" /\ IsError(g.panic)
               /\ d.e # NilPtr /\ ~Suppressing(d.transforms)) =>
              /\ h.slot[d.e] = Composed(d.transforms, c)
              /\ Len(d.transforms) = 0 => h.slot[d.e] = c
              /\ Len(new) = Len(d.transforms)
              /\ \A i \in 1..Len(new) :
                    /\ new[i].t = d.transforms[i]
                    /\ new[i].arg = Composed(SubSeq(d.transforms, 1, i - 1), c)
              /\ h.panic = NoPanic
              /\ h.pc = "exit"
      ]_vars

C3_Witness ==
    \E s \in Ids :
        LET g == goroutines[s] IN
        /\ g.last.op = "Handle" /\ g.last.branch = "deposit"
        /\ Len(g.last.d.transforms) = 2
        /\ g.slot[g.last.d.e] =
              Composed(g.last.d.transforms, Unwrap(g.last.r))
        /\ g.panic = NoPanic

\* C4: when a transform step returns nil while a check.Error is recovered,
\* recovery stops at once: no later step is evaluated, the unwind is
\* suppressed with or without a slot (nothing is re-raised), and no error is
\* recorded: the slot is not written and stays nil.
C4_SuppressStops ==
    [][\A s \in Ids :
        LET g == goroutines[s]
            h == goroutines'[s]
            d == h.last.d
            new == NewCalls(g, h)
        IN  (BoundaryStep(g, h) /\ IsError(g.panic)
               /\ Suppressing(d.transforms)) =>
              /\ h.panic = NoPanic
              /\ h.pc = IF h.last.op = "Catch" THEN "run" ELSE "exit"
              /\ h.writes = g.writes
              /\ h.slot = g.slot
              /\ d.e # NilPtr => h.slot[d.e] = Nil
              /\ Len(new) = FirstSuppress(d.transforms)
              /\ \A i \in 1..Len(new) : new[i].t = d.transforms[i]
      ]_vars

C4_Witness ==
    \E s \in Ids :
        LET g == goroutines[s] IN
        /\ g.last.op \in BoundaryOps /\ g.last.branch = "suppress"
        /\ Len(g.last.d.transforms) = 2
        /\ g.last.d.transforms[1] = "suppress"
        /\ Len(g.calls) = 1
        /\ g.panic = NoPanic

\* C5: Handle or Wrap without a slot, intercepting a check.Error wrapping c
\* whose chain yields a non-nil final cause f, re-raises a check.Error
\* wrapping exactly f (c when there is no transform): the unwind goes on
\* one level up.
C5_NoSlotReraises ==
    [][\A s \in Ids :
        LET g == goroutines[s]
            h == goroutines'[s]
            d == h.last.d
        IN  (BoundaryStep(g, h) /\ h.last.op \in {"Handle", "Wrap"}
               /\ IsError(g.panic) /\ d.e = NilPtr
               /\ ~Suppressing(d.transforms)) =>
              /\ h.panic = Error(Composed(d.transforms, Unwrap(g.panic)))
              /\ Len(d.transforms) = 0 => h.panic = g.panic
              /\ h.pc = "exit"
              /\ h.slot = g.slot /\ h.writes = g.writes
      ]_vars

C5_Witness ==
    \E s \in Ids :
        LET g == goroutines[s] IN
        /\ g.last.op = "Wrap" /\ g.last.branch = "reraise"
        /\ Len(g.last.d.transforms) > 0
        /\ g.panic = Error(Composed(g.last.d.transforms, Unwrap(g.last.r)))
        /\ g.panic # g.last.r

\* C6: Fail never returns.  Fail(nil) unwinds with ErrNilError, which is not
\* a check.Error; Fail(c) for a non-nil c unwinds with a check.Error
\* wrapping exactly c; a recovery point tells the two payloads apart for
\* every c.
C6_FailContract ==
    [][\A s \in Ids :
        LET g == goroutines[s]
            h == goroutines'[s]
            c == h.last.c
        IN  RaiseStep(g, h, "Fail") =>
              /\ h.pc = "exit" /\ h.panic # NoPanic
              /\ h.ret = g.ret
              /\ c = Nil => h.panic = ErrNilError /\ ~IsError(h.panic)
              /\ c # Nil => IsError(h.panic) /\ Unwrap(h.panic) = c
              /\ \A c2 \in Causes :
                    /\ Fail(c2).payload # Fail(Nil).payload
                    /\ IsError(Fail(c2).payload) # IsError(Fail(Nil).payload)
      ]_vars

C6_Witness ==
    \E s \in Ids :
        LET g == goroutines[s] IN
        /\ g.last.op = "Fail" /\ g.last.c = Nil
        /\ g.panic = ErrNilError
        /\ g.pc = "exit"

\* C7: the ErrNilError raised by Fail(nil) is never absorbed: Handle, Wrap
\* and Catch_N, with any transform chain (a suppressing one included),
\* re-raise it unchanged, invoke no transform on it and write no slot; Pass
\* returns it to its caller instead of re-raising it.
C7_SentinelNotAbsorbed ==
    [][\A s \in Ids :
        LET g == goroutines[s]
            h == goroutines'[s]
        IN  /\ (BoundaryStep(g, h) /\ g.panic = ErrNilError) =>
                 /\ h.panic = ErrNilError
                 /\ h.pc = "exit"
                 /\ h.calls = g.calls
                 /\ h.writes = g.writes /\ h.slot = g.slot
            /\ (PassStep(g, h) /\ g.panic = ErrNilError) =>
                 /\ h.last.branch = "return"
                 /\ h.log = Append(g.log, ErrNilError.val)
      ]_vars

C7_Witness ==
    \E s \in Ids :
        LET g == goroutines[s] IN
        /\ g.last.op \in BoundaryOps
        /\ g.last.r = ErrNilError
        /\ Suppressing(g.last.d.transforms)
        /\ g.last.d.e # NilPtr
        /\ g.panic = ErrNilError
        /\ g.log # <<>>

\* C8: Catch_N (N in 0..4) without transforms returns (v, nil) when work
\* returns v, and the zero value in every success position together with
\* the error c, returning normally, when work raises a check.Error wrapping
\* c, whatever work had computed before.
C8_CatchContract ==
    \A s \in Ids :
        LET g == goroutines[s]
            l == g.last
        IN  (l.op = "Catch" /\ l.d.transforms = <<>>) =>
              /\ l.r = NoPanic =>
                   /\ g.ret = l.v /\ Len(g.ret) = l.n
                   /\ g.rerr = Nil
                   /\ g.pc = "run" /\ g.panic = NoPanic
              /\ IsError(l.r) =>
                   /\ Len(g.ret) = l.n
                   /\ \A i \in 1..l.n : g.ret[i] = 0
                   /\ g.rerr = Unwrap(l.r)
                   /\ g.pc = "run" /\ g.panic = NoPanic

C8_Witness ==
    \E s \in Ids :
        LET g == goroutines[s] IN
        /\ g.last.op = "Catch" /\ g.last.n = 4 /\ g.last.d.transforms = <<>>
        /\ IsError(g.last.r)
        /\ g.last.v # <<>>
        /\ g.ops = 2
        /\ g.ret = Zero(4)
        /\ g.rerr \in Causes

\* C9: when the work of Catch_N raises a check.Error and a transform of the
\* chain returns nil, Catch_N returns normally with a nil error and the zero
\* value in every success position; when work raises and no transform
\* returns nil, the returned error is non-nil.
C9_CatchSuppressed ==
    \A s \in Ids :
        LET g == goroutines[s]
            l == g.last
        IN  (l.op = "Catch" /\ IsError(l.r)) =>
              /\ g.pc = "run" /\ g.panic = NoPanic
              /\ Suppressing(l.d.transforms) =>
                   g.rerr = Nil /\ g.ret = Zero(l.n)
              /\ ~Suppressing(l.d.transforms) => g.rerr # Nil

C9_Witness ==
    \E s \in Ids :
        LET g == goroutines[s] IN
        /\ g.last.op = "Catch" /\ g.last.n = 3
        /\ IsError(g.last.r)
        /\ Len(g.last.d.transforms) = 2
        /\ g.last.d.transforms[2] = "suppress"
        /\ g.rerr = Nil /\ g.ret = Zero(3)
        /\ g.pc = "run"

\* C10: Pass(payload) re-raises the same payload and does not return when
\* payload is a check.Error; every other payload, nil or not, it returns
\* unchanged without starting an unwind.  (Seen from the logPanic hook: its
\* body runs, with the payload Pass returned, only for a non-nil payload that
\* is not a check.Error.)
C10_PassContract ==
    [][\A s \in Ids :
        LET g == goroutines[s]
            h == goroutines'[s]
            p == Pass(g.panic)
        IN  PassStep(g, h) =>
              /\ IsError(g.panic) =>
                   /\ p.panics /\ p.payload = g.panic
                   /\ h.panic = g.panic /\ h.log = g.log
                   /\ h.last.branch = "reraise"
              /\ ~IsError(g.panic) =>
                   /\ ~p.panics /\ p.r = g.panic
                   /\ h.last.branch = "return"
                   /\ h.panic = g.panic
                   /\ h.log = IF g.panic = NoPanic THEN g.log
                              ELSE Append(g.log, g.panic.val)
      ]_vars

C10_Witness ==
    \E s \in Ids :
        LET g == goroutines[s] IN
        /\ g.last.op = "Pass" /\ IsError(g.last.r)
        /\ g.last.branch = "reraise"
        /\ g.panic = g.last.r
        /\ g.log = <<>>

\* C11: a boundary (Handle, Wrap, the Handle of Catch_N) that runs with no
\* unwind in progress is a no-op: its slot is not written and stays nil, no
\* transform is invoked (a suppressing one included), nothing is raised, and
\* nothing else changes: the function goes on leaving, and Catch_N returns
\* what work returned with a nil error.
C11_NoUnwindNoOp ==
    [][\A s \in Ids :
        LET g == goroutines[s]
            h == goroutines'[s]
            d == h.last.d
        IN  (BoundaryStep(g, h) /\ g.panic = NoPanic) =>
              /\ h.last.branch = "noop"
              /\ h.panic = NoPanic
              /\ h.slot = g.slot /\ h.writes = g.writes
              /\ d.e # NilPtr => h.slot[d.e] = Nil
              /\ h.calls = g.calls /\ h.log = g.log
              /\ h.last.op \in {"Handle", "Wrap"} =>
                   h = [g EXCEPT !.defers = Front(@), !.last = h.last]
              /\ h.last.op = "Catch" =>
                   h = [g EXCEPT !.defers = Front(@), !.cstack = Front(@),
                                 !.pc = "run", !.rerr = Nil, !.last = h.last]
      ]_vars

C11_Witness ==
    \E s \in Ids :
        LET g == goroutines[s] IN
        /\ g.last.op \in {"Handle", "Wrap"} /\ g.last.branch = "noop"
        /\ g.last.r = NoPanic
        /\ g.last.d.e # NilPtr
        /\ Len(g.last.d.transforms) = 2
        /\ Suppressing(g.last.d.transforms)
        /\ g.slot[g.last.d.e] = Nil
        /\ g.calls = <<>> /\ g.writes = <<>>
        /\ g.ops > 0

\* The error a go-errors decorator wraps (its Err field); an undecorated
\* error is its own cause.
Cause(err) == [err EXCEPT !.traced = FALSE, !.stack = <<>>]

\* C12: Wrap follows the protocol of Handle: for every unwind state (none,
\* foreign payload, check.Error), slot (present or absent), transform chain
\* and skip count, Wrap takes the branch Handle would take, leaves the same
\* panic in flight and invokes the same transforms; and whenever Wrap
\* deposits into the slot, the value deposited is a stack-capturing
\* decorator whose cause is the value Handle would have deposited.
C12_WrapLikeHandle ==
    [][\A s \in Ids :
        LET g == goroutines[s]
            h == goroutines'[s]
            d == h.last.d
            ref == Handle(d.e, d.transforms, g.panic, StackNow(g))
        IN  (BoundaryStep(g, h) /\ h.last.op = "Wrap") =>
              /\ h.last.branch = ref.branch
              /\ h.panic = ref.panic
              /\ Len(NewCalls(g, h)) = Len(ref.calls)
              /\ \A i \in 1..Len(ref.calls) :
                    /\ NewCalls(g, h)[i].t = ref.calls[i].t
                    /\ NewCalls(g, h)[i].arg = ref.calls[i].arg
              /\ ref.branch # "deposit" =>
                    h.slot = g.slot /\ h.writes = g.writes
              /\ ref.branch = "deposit" =>
                    /\ h.slot[d.e].traced
                    /\ Cause(h.slot[d.e]) = ref.val
      ]_vars

\* Frames of the raise primitives.
RaiseFrames == {"check.Must", "check.Must1", "check.Must2", "check.Must3",
                "check.Must4", "check.Fail", "check.Failf"}

\* The panic whose stack is ps was raised by a raise primitive and has not
\* been re-raised since.
RaisedDirectly(ps) ==
    /\ Cardinality({i \in 1..Len(ps) : ps[i] = "runtime.gopanic"}) = 1
    /\ \E i \in 1..Len(ps) : ps[i] \in RaiseFrames

\* The frames of ps below the raise primitive, outermost first: the last of
\* them is the function that invoked the raise primitive.
Invokers(ps) ==
    LET first == CHOOSE i \in 1..Len(ps) :
                    ps[i] \in RaiseFrames /\ \A j \in 1..(i - 1) : ps[j] \notin RaiseFrames
    IN  SubSeq(ps, 1, first - 1)

\* C13: for every raise primitive (Must, Must1..Must4, Fail, Failf) and
\* every skip count k >= 0, the stack trace Wrap attaches to the deposited
\* error starts k frames above the function that invoked the raise
\* primitive (with k = 1: at its immediate caller) and goes on outwards; no
\* frame of the boundary or of the raise primitive is retained.
C13_TraceStartsAtInvoker ==
    [][\A s \in Ids :
        LET g == goroutines[s]
            h == goroutines'[s]
            d == h.last.d
        IN  (BoundaryStep(g, h) /\ h.last.op = "Wrap"
               /\ h.last.branch = "deposit" /\ d.skip >= 0
               /\ RaisedDirectly(g.pstack)) =>
              /\ h.slot[d.e].traced
              /\ h.slot[d.e].stack = Drop(Reverse(Invokers(g.pstack)), d.skip)
              /\ \A i \in 1..Len(h.slot[d.e].stack) :
                    /\ h.slot[d.e].stack[i] \notin RaiseFrames
                    /\ h.slot[d.e].stack[i] \notin
                          {"check.Wrap", "check.handle", "runtime.gopanic",
                           "errors.Wrap", "runtime.Callers"}
      ]_vars

\* C14 as claimed: every check.Error in flight was constructed by a raise
\* primitive (Must_N, Fail or Failf); the boundary and the Catch family
\* construct none.
C14_OnlyRaisePrimitivesConstruct ==
    \A s \in Ids :
        IsError(goroutines[s].panic) => goroutines[s].maker \in RaiseFrames

\* C14 as amended: every check.Error in flight was constructed by a raise
\* primitive or by handle, which builds a new Error{err} around the
\* transformed cause when a Handle or Wrap without a slot re-raises a
\* check.Error it recovered.  A maker among the raise primitives is set only
\* by a call of Must_N, Fail or Failf; a boundary with a slot and Catch_N
\* never leave a check.Error in flight; every other step keeps the maker.
C14_ConstructedByRaiseOrReraise ==
    [][\A s \in Ids :
        LET g == goroutines[s]
            h == goroutines'[s]
            d == h.last.d
        IN  /\ IsError(h.panic) =>
                 h.maker \in RaiseFrames \cup {"check.handle"}
            /\ (h.ops = g.ops + 1 /\ IsError(h.panic)) =>
                 /\ h.last.op \in {"Must", "Fail", "Failf"}
                 /\ h.maker \in RaiseFrames
                 /\ h.maker = h.pstack[Len(h.pstack) - 1]
            /\ (BoundaryStep(g, h) /\ IsError(h.panic)) =>
                 /\ h.last.op \in {"Handle", "Wrap"}
                 /\ d.e = NilPtr
                 /\ IsError(g.panic)
                 /\ h.maker = "check.handle"
            /\ (IsError(h.panic) /\ h.ops = g.ops /\ ~BoundaryStep(g, h)) =>
                 /\ h.panic = g.panic
                 /\ h.maker = g.maker
      ]_vars

C14_Witness ==
    \E s \in Ids :
        LET g == goroutines[s] IN
        /\ g.last.op \in {"Handle", "Wrap"} /\ g.last.branch = "reraise"
        /\ g.last.d.e = NilPtr
        /\ Len(g.last.d.transforms) > 0
        /\ IsError(g.last.r)
        /\ IsError(g.panic) /\ g.panic # g.last.r
        /\ g.maker = "check.handle"

\* C15: the cause wrapped by every check.Error this package puts in flight
\* (by Must_N, Fail, Failf, or by a boundary re-raising after its transform
\* chain) is non-nil; Failf always unwinds, with a check.Error whose cause is
\* the freshly formatted, non-nil error.
C15_CauseNonNil ==
    [][\A s \in Ids :
        LET g == goroutines[s]
            h == goroutines'[s]
        IN  /\ IsError(h.panic) => Unwrap(h.panic) # Nil
            /\ RaiseStep(g, h, "Failf") =>
                 /\ h.pc = "exit"
                 /\ IsError(h.panic)
                 /\ Unwrap(h.panic) \in {Errorf(f) : f \in Formats}
                 /\ Unwrap(h.panic) = h.last.c
                 /\ h.last.c # Nil
      ]_vars

C15_Witness ==
    \E s \in Ids :
        LET g == goroutines[s] IN
        /\ g.last.op \in {"Handle", "Wrap"} /\ g.last.branch = "reraise"
        /\ Len(g.last.d.transforms) > 0
        /\ g.last.r \in {Error(Errorf(f)) : f \in Formats}
        /\ g.maker = "check.handle"
        /\ g.panic = Error(Composed(g.last.d.transforms, Unwrap(g.last.r)))
        /\ Unwrap(g.panic) # Nil

\* The deferred calls ds end with a Handle with a slot and no transform and,
\* deferred after it by the same function, the logPanic hook.
HookInsideHandle(ds) ==
    /\ Len(ds) >= 2
    /\ ds[Len(ds)].fn = "logPanic"
    /\ ds[Len(ds) - 1].fn = "Handle"
    /\ ds[Len(ds) - 1].e # NilPtr
    /\ ds[Len(ds) - 1].transforms = <<>>
    /\ ds[Len(ds) - 1].owner = ds[Len(ds)].owner

\* C16: a hook that calls Pass(recover()), deferred inside a Handle
\* boundary with a slot.  When the body raised a check.Error wrapping c the
\* hook's handling does not run (its log is unchanged) and Handle then
\* deposits c and ends the unwind; when the body raised a foreign payload p
\* the handling runs exactly once and p goes on past Handle unchanged with
\* the slot unwritten; when the body did not raise, the handling does not
\* run and the slot stays nil.
C16_HookInsideHandle ==
    [][\A s \in Ids :
        LET g == goroutines[s]
            h == goroutines'[s]
            d == h.last.d
            p == g.last.r
        IN  /\ (PassStep(g, h) /\ HookInsideHandle(g.defers)) =>
                 /\ h.panic = g.panic
                 /\ h.slot = g.slot /\ h.writes = g.writes
                 /\ h.log = IF g.panic # NoPanic /\ ~IsError(g.panic)
                            THEN Append(g.log, g.panic.val) ELSE g.log
                 /\ h.defers = Front(g.defers)
            /\ (BoundaryStep(g, h) /\ g.last.op = "Pass"
                   /\ HookInsideHandle(Append(g.defers, g.last.d))) =>
                 /\ h.last.op = "Handle"
                 /\ g.panic = p
                 /\ h.log = g.log
                 /\ IsError(p) =>
                      /\ h.slot[d.e] = Unwrap(p)
                      /\ h.writes = Append(g.writes,
                                            [slot |-> d.e, val |-> Unwrap(p)])
                      /\ h.panic = NoPanic
                 /\ (p # NoPanic /\ ~IsError(p)) =>
                      /\ h.panic = p
                      /\ g.log # <<>> /\ g.log[Len(g.log)] = p.val
                      /\ h.slot = g.slot /\ h.writes = g.writes
                 /\ p = NoPanic =>
                      /\ h.panic = NoPanic
                      /\ h.slot = g.slot /\ h.slot[d.e] = Nil
                      /\ h.writes = g.writes
      ]_vars

C16_Witness ==
    \E s \in Ids :
        LET g == goroutines[s] IN
        /\ g.last.op = "Handle" /\ g.last.branch = "pass"
        /\ g.last.d.e # NilPtr /\ g.last.d.transforms = <<>>
        /\ g.last.r \in ForeignValues
        /\ g.panic = g.last.r
        /\ g.log = <<g.last.r.val>>
        /\ g.slot[g.last.d.e] = Nil /\ g.writes = <<>>
        /\ \E i \in 1..Len(g.pstack) : g.pstack[i] = "logPanic"

\* C17: an inner boundary without a slot and with chain Tin, and an
\* enclosing outer boundary with a slot and chain Tout, neither with a step
\* returning nil.  When the outer boundary runs on the check.Error the inner
\* one re-raised for a check.Error wrapping c, the outer slot ends holding
\* Tout applied to Tin applied to c, every transform has been invoked
\* exactly once, all of Tin in order before all of Tout in order, the unwind
\* is over, and the function then returns normally.
C17_NestedChains ==
    [][\A s \in Ids :
        LET g == goroutines[s]
            h == goroutines'[s]
            d == h.last.d
            tin == g.last.d.transforms
            tout == d.transforms
            c == Unwrap(g.last.r)
            all == tin \o tout
            n == Len(h.calls)
        IN  /\ (BoundaryStep(g, h)
                   /\ g.last.op \in {"Handle", "Wrap"}
                   /\ g.last.branch = "reraise" /\ g.last.d.e = NilPtr
                   /\ d.e # NilPtr /\ ~Suppressing(tout)) =>
                 /\ g.panic = Error(Composed(tin, c))
                 /\ h.last.branch = "deposit"
                 /\ Cause(h.slot[d.e]) = Composed(tout, Composed(tin, c))
                 /\ h.panic = NoPanic
                 /\ n >= Len(all)
                 /\ \A i \in 1..Len(all) :
                       h.calls[n - Len(all) + i].t = all[i]
                 /\ \A i \in 1..Len(all) :
                       Cardinality({j \in 1..n : h.calls[j].t = all[i]}) = 1
            /\ (h.last.op = "pop" /\ g.last.op \in BoundaryOps
                   /\ g.last.branch = "deposit") =>
                 /\ h.panic = NoPanic
                 /\ h.pc \in {"done", "run", "exit"}
                 /\ h.slot = g.slot
      ]_vars

C17_Witness ==
    \E s \in Ids :
        LET g == goroutines[s] IN
        /\ g.pc = "done" /\ g.panic = NoPanic
        /\ Len(g.calls) = 3
        /\ g.calls[1].at = 2 /\ g.calls[2].at = 2 /\ g.calls[3].at = 1
        /\ g.slot[1].chain = <<"t1", "t3", "t2", "oops">>
        /\ g.slot[1].traced
        /\ Len(g.writes) = 1

\* C18: once a boundary with a slot has intercepted a check.Error
\* (depositing its cause or suppressing it) the unwind is over: no panic is
\* in flight until the calling code raises again, so every enclosing
\* boundary runs with nothing to recover, writes no slot and invokes no
\* transform; a slot is written only by a boundary step that consumes the
\* check.Error in flight, so each raised failure is deposited at most once.
C18_InterceptedOnce ==
    [][\A s \in Ids :
        LET g == goroutines[s]
            h == goroutines'[s]
            d == h.last.d
        IN  /\ (BoundaryStep(g, h) /\ IsError(g.panic) /\ d.e # NilPtr) =>
                 /\ h.last.branch \in {"deposit", "suppress"}
                 /\ h.panic = NoPanic /\ h.pstack = <<>>
            /\ (g.panic = NoPanic /\ h.ops = g.ops) => h.panic = NoPanic
            /\ (BoundaryStep(g, h) /\ g.panic = NoPanic) =>
                 /\ h.writes = g.writes /\ h.slot = g.slot
                 /\ h.calls = g.calls
            /\ h.writes # g.writes =>
                 /\ BoundaryStep(g, h)
                 /\ IsError(g.panic) /\ h.panic = NoPanic
                 /\ Len(h.writes) = Len(g.writes) + 1
            /\ Len(h.writes) <= h.ops
      ]_vars

C18_Witness ==
    \E s \in Ids :
        LET g == goroutines[s] IN
        /\ g.last.op \in BoundaryOps /\ g.last.branch = "noop"
        /\ g.last.d.e = 1 /\ Len(g.last.d.transforms) > 0
        /\ g.ops = 1
        /\ Len(g.writes) = 1 /\ g.writes[1].slot = 2
        /\ g.slot[2] # Nil /\ g.slot[1] = Nil
        /\ g.calls = <<>>
        /\ g.panic = NoPanic

\* The steps a call stack in state g takes when it runs alone: a function
\* of g only.
LocalNext(g) ==
    LET d == Top(g.defers)
        rest == Front(g.cstack)
    IN
    (IF Running(g) /\ Room(g, 1)
     THEN {Raised(g, Fail(c), Step("Fail", 0, <<>>, c, NoPanic, NoDeferred, ""))
             : c \in Causes \cup {Nil}}
          \cup {Raised(g, Panics(p, <<"runtime.gopanic">>),
                       Step("panic", 0, <<>>, Nil, p, NoDeferred, ""))
                  : p \in ForeignValues}
     ELSE {})
    \cup
    (IF Running(g)
     THEN {[g EXCEPT !.pc = "exit", !.ret = <<>>, !.last = EnvStep("return")]}
     ELSE {})
    \cup
    (IF DeferredNext(g, "Handle")
     THEN LET res == Handle(d.e, d.transforms, g.panic, StackNow(g)) IN
          {Recovered(g, d, res,
                     Step("Handle", 0, <<>>, Nil, g.panic, d, res.branch))}
     ELSE {})
    \cup
    (IF DeferredNext(g, "Wrap")
     THEN LET res == Wrap(d.e, d.skip, d.transforms, g.panic, StackNow(g)) IN
          {Recovered(g, d, res,
                     Step("Wrap", 0, <<>>, Nil, g.panic, d, res.branch))}
     ELSE {})
    \cup
    (IF Exiting(g) /\ g.defers = <<>>
     THEN {[g EXCEPT !.cstack = rest,
                     !.pc = IF g.panic # NoPanic THEN "crashed" ELSE "done",
                     !.last = EnvStep("pop")]}
     ELSE {})

\* C19: under every interleaving of two call stacks that each raise and
\* recover with their own boundary and slot, every step is the step of one
\* stack, is a step that stack takes when run alone from its own state, and
\* leaves the other stack untouched, so a failure is intercepted only
\* by a boundary of the stack that raised it and each stack ends as it
\* ends alone; a stack that can step alone can step whatever state the
\* other is in (no step waits); a stack that raised nothing has nothing
\* in flight, intercepted or deposited.
C19_StacksIndependent ==
    [][/\ \E s \in Ids :
             /\ goroutines'[s] \in LocalNext(goroutines[s])
             /\ \A t \in Ids \ {s} : goroutines'[t] = goroutines[t]
       /\ \A s \in Ids :
             LocalNext(goroutines[s]) # {} => ENABLED StepPar(s)
       /\ \A s \in Ids :
             goroutines'[s].ops = 0 =>
               /\ goroutines'[s].panic = NoPanic
               /\ goroutines'[s].writes = <<>>
               /\ goroutines'[s].calls = <<>>
               /\ \A i \in DOMAIN goroutines'[s].slot :
                     goroutines'[s].slot[i] = Nil
      ]_vars

C19_Witness ==
    /\ goroutines[1].pc = "done"
    /\ goroutines[1].ops = 1
    /\ goroutines[1].slot[1].chain = <<"t1", "oops">>
    /\ Len(goroutines[1].writes) = 1
    /\ goroutines[2].pc = "exit"
    /\ goroutines[2].defers # <<>>
    /\ goroutines[2].panic = Error(NewError("oops"))
    /\ goroutines[2].slot[1] = Nil
    /\ goroutines[2].writes = <<>>

====
